---- MODULE Spec2Model ----
(***************************************************************************)
(* kuevt: four watch loops (node, namespace, pod, deployment) mirror the   *)
(* cluster into a Neo4j graph.  The model holds the graph store, the last   *)
(* event consumed with the result of its Neo4jClient call, and the state   *)
(* of the four loops.                                                      *)
(* Every Cypher statement of neoclient.py is an operator on the store;     *)
(* every Neo4jClient method is the sequence of its statements, cut short   *)
(* where the store fails; every watch loop iteration is one action.        *)
(***************************************************************************)
EXTENDS Naturals, Integers, Sequences, FiniteSets, TLC

VARIABLES cluster, store, before, last, result, issued, running, notified, nEvents,
          calls

vars == <<cluster, store, before, last, result, issued, running, notified, nEvents,
          calls>>

(***************************************************************************)
(* Bounds and input domains                                                *)
(***************************************************************************)

\* number of watch events a behaviour processes
MaxEvents == 5
\* number of watch events a behaviour processes statement by statement
MaxCalls == 3

\* a property that was never SET on a graph node (Cypher null, Python None)
None == "None"
\* a numeric property that was never SET
NoCount == -1
\* metadata.creation_timestamp of an object that has none
NoTime == -1

Kinds == {"node", "namespace", "pod", "deployment"}
EventTypes == {"ADDED", "MODIFIED", "DELETED"}

\* metadata.labels / spec.selector.match_labels: a dict, here a set of
\* <<key, value>> pairs with distinct keys; None and {} are both falsy
AppTier == {<<"app", "x">>, <<"tier", "y">>}
TierOnly == {<<"tier", "y">>}
SelApp == {<<"app", "x">>}
SelOther == {<<"app", "z">>, <<"tier", "y">>}

\* the objects the watch streams can deliver; ts is metadata.creation_timestamp
\* in seconds, phase is status.phase, counts is <<spec.replicas, status.ready_replicas>>
NodeObj(name, ts) == [name |-> name, ts |-> ts]
NamespaceObj(name, ts, phase) == [name |-> name, ts |-> ts, phase |-> phase]
PodObj(name, ts, phase, pod_ip, labels, node_name) ==
    [name |-> name, ts |-> ts, phase |-> phase, pod_ip |-> pod_ip, labels |-> labels,
     namespace |-> "ns1", node_name |-> node_name]
DeploymentObj(name, ts, counts, labels, selector) ==
    [name |-> name, ts |-> ts, counts |-> counts, labels |-> labels,
     namespace |-> "ns1", spec_selector |-> TRUE, selector |-> selector]

\* a rollout: one pod goes from pending to running and is relabelled while
\* two deployments select it by different labels
Rollout ==
    [nodes |-> {NodeObj("n1", 0)},
     namespaces |-> {NamespaceObj("ns1", 0, "Active")},
     pods |-> {PodObj("p1", 0, ph[1], ph[2], l, "n1") :
                 ph \in {<<"Pending", None>>, <<"Running", "10.0.0.1">>},
                 l \in {AppTier, TierOnly, {}}},
     deployments |-> {DeploymentObj("d1", 0, <<2, 1>>, SelApp, SelApp),
                      DeploymentObj("d2", 0, <<1, NoCount>>, {}, TierOnly)},
     faults |-> FALSE, ends |-> FALSE]

\* objects deleted and created again under the same name, a minute or
\* half a minute later
Recreate ==
    [nodes |-> {NodeObj("n1", 0), NodeObj("n1", 30), NodeObj("n1", 60)},
     namespaces |-> {NamespaceObj("ns1", 0, "Active"), NamespaceObj("ns1", 60, None)},
     pods |-> {PodObj("p1", 0, "Running", "10.0.0.1", AppTier, "n1"),
               PodObj("p1", 60, "Running", "10.0.0.2", TierOnly, "n1")},
     deployments |-> {DeploymentObj("d1", 0, <<2, 1>>, SelApp, SelApp),
                      DeploymentObj("d1", 60, <<1, NoCount>>, {}, {})},
     faults |-> FALSE, ends |-> FALSE]

\* two pods, on the host network of one node or with addresses of their own
TwoPods ==
    [nodes |-> {NodeObj("n1", 0)},
     namespaces |-> {NamespaceObj("ns1", 0, "Active")},
     pods |-> {PodObj("p1", 0, "Running", "10.0.0.1", AppTier, "n1"),
               PodObj("p2", 0, "Running", "10.0.0.1", TierOnly, "n1"),
               PodObj("p2", 0, None, "10.0.0.2", AppTier, None)},
     deployments |-> {DeploymentObj("d1", 0, <<2, 1>>, SelApp, SelApp),
                      DeploymentObj("d2", 0, <<1, NoCount>>, {}, SelOther)},
     faults |-> FALSE, ends |-> FALSE]

\* the store fails now and then
Outage ==
    [nodes |-> {NodeObj("n1", 0)},
     namespaces |-> {NamespaceObj("ns1", 0, "Active")},
     pods |-> {PodObj("p1", 0, "Running", "10.0.0.1", AppTier, "n1")},
     deployments |-> {DeploymentObj("d1", 0, <<2, 1>>, SelApp, SelApp)},
     faults |-> TRUE, ends |-> FALSE]

\* objects that lack a creation timestamp or a selector object, and watch
\* streams that end
Degraded ==
    [nodes |-> {NodeObj("n1", 0), NodeObj("n1", NoTime)},
     namespaces |-> {NamespaceObj("ns1", 0, "Active"), NamespaceObj("ns1", NoTime, "Active")},
     pods |-> {PodObj("p1", 0, "Running", "10.0.0.1", AppTier, "n1"),
               PodObj("p1", NoTime, "Running", "10.0.0.1", AppTier, "n1")},
     deployments |-> {DeploymentObj("d1", 0, <<2, 1>>, SelApp, SelApp),
                      [DeploymentObj("d1", 0, <<2, 1>>, SelApp, {})
                          EXCEPT !.spec_selector = FALSE]},
     faults |-> FALSE, ends |-> TRUE]

\* a deployment whose selector is changed while its pod is being synchronized
Concurrent ==
    [nodes |-> {NodeObj("n1", 0)},
     namespaces |-> {NamespaceObj("ns1", 0, "Active")},
     pods |-> {PodObj("p1", 0, "Running", "10.0.0.1", AppTier, "n1")},
     deployments |-> {DeploymentObj("d1", 0, <<2, 1>>, SelApp, SelApp),
                      DeploymentObj("d1", 0, <<2, 1>>, SelApp, SelOther)},
     faults |-> FALSE, ends |-> FALSE]

Clusters == {"Rollout", "Recreate", "TwoPods", "Outage", "Degraded"}

\* the objects of the cluster the behaviour watches
Cluster ==
    CASE cluster = "Rollout" -> Rollout
      [] cluster = "Recreate" -> Recreate
      [] cluster = "TwoPods" -> TwoPods
      [] cluster = "Outage" -> Outage
      [] cluster = "Degraded" -> Degraded
      [] cluster = "Concurrent" -> Concurrent

\* the events of the four watch streams of a cluster
Events(objs) == [type : EventTypes, obj : objs]

\* what a failing store call raises
ErrorTypes == {"ServiceUnavailable", "CypherError"}

(***************************************************************************)
(* The graph store: nodes with a label and properties, typed relationships *)
(***************************************************************************)

\* the identity of a graph node: nothing ever changes these properties
Key(n) == [label |-> n.label, name |-> n.name, created |-> n.created]

NewNode(label, name, kind, created) ==
    [label |-> label, name |-> name, kind |-> kind, created |-> created,
     status |-> None, pod_ip |-> None, labels |-> {},
     replicas |-> NoCount, ready_replicas |-> NoCount, selector |-> {}]

EmptyStore == [nodes |-> {}, rels |-> {}]

\* MERGE (:Label {name: $name, kind: $kind, created: $created})
MergeNode(st, label, name, kind, created) ==
    IF \E n \in st.nodes : n.label = label /\ n.name = name
                           /\ n.kind = kind /\ n.created = created
    THEN st
    ELSE [st EXCEPT !.nodes = @ \cup {NewNode(label, name, kind, created)}]

\* a DELETE that leaves the relationships of the deleted nodes behind
DeleteKeepingRels(st, label, name) ==
    [st EXCEPT !.nodes = {n \in @ : ~(n.label = label /\ n.name = name)}]

\* MATCH (x:Label {name: $name}) DETACH DELETE x
DetachDelete(st, label, name) ==
    LET gone == {Key(n) : n \in {m \in st.nodes : m.label = label /\ m.name = name}}
    IN  [nodes |-> {n \in st.nodes : Key(n) \notin gone},
         rels  |-> {r \in st.rels : r.src \notin gone /\ r.dst \notin gone}]

\* MATCH (a ...) MATCH (b ...) MERGE (a)-[:type]->(b), for the matched sets
MergeRels(st, type, srcs, dsts) ==
    [st EXCEPT !.rels = @ \cup {[type |-> type, src |-> Key(a), dst |-> Key(b)] :
                                 a \in srcs, b \in dsts}]

\* '%s=%s' % (key, value) for every item of a labels / selector dict
LabelProperty(dict) == {kv[1] \o "=" \o kv[2] : kv \in dict}

\* obj.metadata.creation_timestamp.strftime("%Y-%m-%d %H:%M"): minutes
Strftime(ts) == ts \div 60

\* KubeDataController._build_base_props
build_base_props(name, kind, ts) ==
    [name |-> name, kind |-> kind, creation_time |-> Strftime(ts)]

(***************************************************************************)
(* Neo4jClient methods.  fail.step names the step of the call at which the  *)
(* store raises ("none": it answers every statement).  A call yields the   *)
(* store after it, its return value ("True", "False", or "raised" when the *)
(* exception leaves the method) and the steps it issued.                   *)
(***************************************************************************)

Outcome(st, res, steps) == [store |-> st, result |-> res, issued |-> steps]

NoFailure == [step |-> "none", linked |-> {}, err |-> "none"]

\* Neo4jClient.create_node: except ServiceUnavailable only
create_node(st, props, fail) ==
    IF fail.step = "merge"
    THEN Outcome(st, IF fail.err = "ServiceUnavailable" THEN "False" ELSE "raised",
                 {"merge"})
    ELSE Outcome(MergeNode(st, "Node", props.name, props.kind, props.creation_time),
                 "True", {"merge"})

\* MATCH (n:Namespace {name: $name}) SET n.status = $status
SetNamespaceStatus(st, name, status) ==
    [st EXCEPT !.nodes = {IF n.label = "Namespace" /\ n.name = name
                          THEN [n EXCEPT !.status = status] ELSE n : n \in @}]

\* Neo4jClient.upsert_namespace: except ServiceUnavailable only
upsert_namespace(st, props, fail) ==
    LET bad  == IF fail.err = "ServiceUnavailable" THEN "False" ELSE "raised"
        st1  == MergeNode(st, "Namespace", props.name, props.kind, props.creation_time)
    IN  IF fail.step = "merge" THEN Outcome(st, bad, {"merge"})
        ELSE IF props.status = None THEN Outcome(st1, "True", {"merge"})
        ELSE IF fail.step = "set" THEN Outcome(st1, bad, {"merge", "set"})
        ELSE Outcome(SetNamespaceStatus(st1, props.name, props.status),
                     "True", {"merge", "set"})

\* MATCH (p:Pod {name: $name}) SET p.status = $status, p.pod_ip = $pod_ip
SetPodStatus(st, name, status, pod_ip) ==
    [st EXCEPT !.nodes = {IF n.label = "Pod" /\ n.name = name
                          THEN [n EXCEPT !.status = status, !.pod_ip = pod_ip]
                          ELSE n : n \in @}]

\* a match in which a null parameter equals a pod_ip that was never set
PodsByIpNullEqual(st, pod_ip) ==
    {n \in st.nodes : n.label = "Pod" /\ n.pod_ip = pod_ip}

\* the pods MATCH (p:Pod {pod_ip: $pod_ip}) finds: a null parameter matches nothing
PodsByIp(st, pod_ip) ==
    {n \in st.nodes : n.label = "Pod" /\ pod_ip # None /\ n.pod_ip = pod_ip}

\* an update of the labels that unlinks the pod from its deployments first
update_pod_label_relink(st, pod_ip, labels) ==
    LET hit == {Key(p) : p \in PodsByIp(st, pod_ip)}
    IN  [nodes |-> {IF Key(n) \in hit THEN [n EXCEPT !.labels = labels]
                    ELSE n : n \in st.nodes},
         rels  |-> {r \in st.rels : ~(r.type = "scheduledTo" /\ r.dst \in hit)}]

\* Neo4jClient.update_pod_label
update_pod_label(st, pod_ip, labels) ==
    LET hit == {Key(p) : p \in PodsByIp(st, pod_ip)}
    IN  [st EXCEPT !.nodes = {IF Key(n) \in hit THEN [n EXCEPT !.labels = labels]
                              ELSE n : n \in @}]

\* Neo4jClient.get_deployments: a row (name, selector) per Deployment node
get_deployments(st) ==
    {[name |-> d.name, selector |-> d.selector] :
        d \in {n \in st.nodes : n.label = "Deployment"}}

\* a WHERE clause whose entries are joined by OR
SelectorConditionAny(selector, p) == \E s \in selector : s \in p.labels

\* the WHERE clause built from a row's selector: every entry in p.labels
SelectorCondition(selector, p) == \A s \in selector : s \in p.labels

\* MERGE (d:Deployment {name: $name})-[:scheduledTo]->(p): a MERGE of the whole
\* pattern, which creates the deployment when none of that name is stored
LinkDeploymentMergePattern(st, row) ==
    LET found == {d \in st.nodes : d.label = "Deployment" /\ d.name = row.name}
        st1 == IF found # {} THEN st
               ELSE [st EXCEPT !.nodes =
                        @ \cup {NewNode("Deployment", row.name, "Deployment", NoTime)}]
    IN  MergeRels(st1, "scheduledTo",
                  {d \in st1.nodes : d.label = "Deployment" /\ d.name = row.name},
                  {p \in st1.nodes : p.label = "Pod" /\ SelectorCondition(row.selector, p)})

\* MATCH (d:Deployment {name: $name}) MATCH (p:Pod) WHERE ... MERGE (d)-[:scheduledTo]->(p)
LinkDeployment(st, row) ==
    MergeRels(st, "scheduledTo",
              {d \in st.nodes : d.label = "Deployment" /\ d.name = row.name},
              {p \in st.nodes : p.label = "Pod" /\ SelectorCondition(row.selector, p)})

\* the loop over the rows read: one statement per row with a selector
RECURSIVE LinkAll(_, _)
LinkAll(st, rows) ==
    IF rows = {} THEN st
    ELSE LET row == CHOOSE r \in rows : TRUE
         IN  LinkAll(LinkDeployment(st, row), rows \ {row})

\* Neo4jClient.add_pod_to_node
add_pod_to_node(st, pod_ip, node_name) ==
    MergeRels(st, "runsOn", PodsByIp(st, pod_ip),
              {n \in st.nodes : n.label = "Node" /\ n.name = node_name})

\* Neo4jClient.add_pod_to_namespace
add_pod_to_namespace(st, pod_ip, namespace) ==
    MergeRels(st, "associateTo", PodsByIp(st, pod_ip),
              {n \in st.nodes : n.label = "Namespace" /\ n.name = namespace})

\* upsert_pod setting the labels before pod_ip and status
PodStepsLabelsFirst == <<"merge", "labels", "set", "match", "runsOn", "associateTo">>

\* the steps of upsert_pod, in the order the method issues them
PodSteps == <<"merge", "set", "labels", "match", "runsOn", "associateTo">>

\* the steps a call with these arguments has to issue
PodApplicable(props, labels, namespace, node_name) ==
    {"merge"}
    \cup (IF props.pod_ip # None /\ props.status # None THEN {"set"} ELSE {})
    \cup (IF labels # {} THEN {"labels", "match"} ELSE {})
    \cup (IF node_name # None THEN {"runsOn"} ELSE {})
    \cup (IF namespace # None THEN {"associateTo"} ELSE {})

\* the rows of get_deployments the matching loop issues a statement for
RowsToLink(st) == {row \in get_deployments(st) : row.selector # {}}

\* one step of upsert_pod applied to the store
ApplyPodStep(st, step, props, labels, namespace, node_name) ==
    CASE step = "merge" -> MergeNode(st, "Pod", props.name, props.kind, props.creation_time)
      [] step = "set" -> SetPodStatus(st, props.name, props.status, props.pod_ip)
      [] step = "labels" -> update_pod_label(st, props.pod_ip, LabelProperty(labels))
      [] step = "match" -> LinkAll(st, RowsToLink(st))
      [] step = "runsOn" -> add_pod_to_node(st, props.pod_ip, node_name)
      [] step = "associateTo" -> add_pod_to_namespace(st, props.pod_ip, namespace)

\* steps i..6 of upsert_pod inside its single try block: the first failing
\* statement ends the call.  fail.step names the failing step ("none": no
\* failure); when the matching step fails after its read, fail.linked are
\* the rows already linked.
RECURSIVE PodRun(_, _, _, _, _, _, _, _)
PodRun(st, i, done, props, labels, namespace, node_name, fail) ==
    IF i > Len(PodSteps) THEN Outcome(st, "True", done)
    ELSE LET step == PodSteps[i]
         IN  IF step \notin PodApplicable(props, labels, namespace, node_name)
             THEN PodRun(st, i + 1, done, props, labels, namespace, node_name, fail)
             ELSE IF fail.step = step
             THEN Outcome(IF step = "match" THEN LinkAll(st, fail.linked) ELSE st,
                          "False", done \cup {step})
             ELSE PodRun(ApplyPodStep(st, step, props, labels, namespace, node_name),
                         i + 1, done \cup {step}, props, labels, namespace, node_name, fail)

\* Neo4jClient.upsert_pod: except Exception
upsert_pod(st, props, labels, namespace, node_name, fail) ==
    PodRun(st, 1, {}, props, labels, namespace, node_name, fail)

\* Neo4jClient.remove_pod: except Exception
remove_pod(st, pod_name, fail) ==
    IF fail.step = "delete" THEN Outcome(st, "False", {"delete"})
    ELSE Outcome(DetachDelete(st, "Pod", pod_name), "True", {"delete"})

\* a SET of the selector that links the pods the new selector matches
SetDeploymentRescan(st, name, field, value) ==
    LET st1 == [st EXCEPT !.nodes = {IF n.label = "Deployment" /\ n.name = name
                                     THEN [n EXCEPT ![field] = value] ELSE n : n \in @}]
    IN  IF field # "selector" THEN st1
        ELSE MergeRels(st1, "scheduledTo",
                       {d \in st1.nodes : d.label = "Deployment" /\ d.name = name},
                       {q \in st1.nodes : q.label = "Pod" /\ value \subseteq q.labels})

\* the SET statements of upsert_deployment, all MATCH (d:Deployment {name: $name})
SetDeployment(st, name, field, value) ==
    [st EXCEPT !.nodes = {IF n.label = "Deployment" /\ n.name = name
                          THEN [n EXCEPT ![field] = value] ELSE n : n \in @}]

\* MATCH (d:Deployment {name}) MATCH (n:Namespace {name}) MERGE (d)-[:associateTo]->(n)
LinkDeploymentNamespace(st, name, namespace) ==
    MergeRels(st, "associateTo",
              {d \in st.nodes : d.label = "Deployment" /\ d.name = name},
              {n \in st.nodes : n.label = "Namespace" /\ n.name = namespace})

DeploymentSteps == <<"merge", "set", "labels", "associateTo", "selector">>

DeploymentApplicable(props, labels, namespace, selector) ==
    {"merge"}
    \cup (IF props.ready_replicas \notin {0, NoCount} /\ props.replicas \notin {0, NoCount}
          THEN {"set"} ELSE {})
    \cup (IF labels # {} THEN {"labels"} ELSE {})
    \cup (IF namespace # None THEN {"associateTo"} ELSE {})
    \cup (IF selector # {} THEN {"selector"} ELSE {})

ApplyDeploymentStep(st, step, props, labels, namespace, selector) ==
    CASE step = "merge" ->
            MergeNode(st, "Deployment", props.name, props.kind, props.creation_time)
      [] step = "set" ->
            SetDeployment(SetDeployment(st, props.name, "replicas", props.replicas),
                          props.name, "ready_replicas", props.ready_replicas)
      [] step = "labels" -> SetDeployment(st, props.name, "labels", LabelProperty(labels))
      [] step = "associateTo" -> LinkDeploymentNamespace(st, props.name, namespace)
      [] step = "selector" ->
            SetDeployment(st, props.name, "selector", LabelProperty(selector))

RECURSIVE DeploymentRun(_, _, _, _, _, _, _, _)
DeploymentRun(st, i, done, props, labels, namespace, selector, fail) ==
    IF i > Len(DeploymentSteps) THEN Outcome(st, "True", done)
    ELSE LET step == DeploymentSteps[i]
         IN  IF step \notin DeploymentApplicable(props, labels, namespace, selector)
             THEN DeploymentRun(st, i + 1, done, props, labels, namespace, selector, fail)
             ELSE IF fail.step = step THEN Outcome(st, "False", done \cup {step})
             ELSE DeploymentRun(ApplyDeploymentStep(st, step, props, labels, namespace, selector),
                                i + 1, done \cup {step}, props, labels, namespace, selector, fail)

\* Neo4jClient.upsert_deployment: except Exception
upsert_deployment(st, props, labels, namespace, selector, fail) ==
    DeploymentRun(st, 1, {}, props, labels, namespace, selector, fail)

\* Neo4jClient.remove_deployment: except Exception
remove_deployment(st, name, fail) ==
    IF fail.step = "delete" THEN Outcome(st, "False", {"delete"})
    ELSE Outcome(DetachDelete(st, "Deployment", name), "True", {"delete"})


(***************************************************************************)
(* Watch loops: one iteration each                                         *)
(***************************************************************************)

\* no event consumed yet
NoEvent == [kind |-> "none", type |-> "none", obj |-> [name |-> None]]

\* a row of get_deployments, before any was read
NoRow == [name |-> None, selector |-> {}]

\* a loop between two events: no call in progress
Idle == [e |-> [type |-> "none", obj |-> [name |-> None]], todo |-> <<>>,
         rows |-> {}, row |-> NoRow]

Init ==
    /\ cluster \in Clusters
    /\ store = EmptyStore
    /\ before = EmptyStore
    /\ last = NoEvent
    /\ result = "none"
    /\ issued = {}
    /\ running = [k \in Kinds |-> TRUE]
    /\ notified = {}
    /\ nEvents = 0
    /\ calls = [k \in Kinds |-> Idle]

\* the results with which an exception leaves the watch loop: one that left a
\* Neo4jClient method, or an AttributeError on a field the object lacks
Raising == {"raised", "error"}

\* an exception in one loop stops every actor
ConsumeStopAll(kind, e, out) ==
    /\ before' = store
    /\ last' = [kind |-> kind, type |-> e.type, obj |-> e.obj]
    /\ store' = out.store
    /\ result' = out.result
    /\ issued' = out.issued
    /\ running' = [k \in Kinds |-> running[k] /\ out.result \notin Raising]
    /\ nEvents' = nEvents + 1
    /\ UNCHANGED <<cluster, notified, calls>>

\* the loop of `kind` consumed event e; an exception ends the loop: on_receive
\* logs and raises it again, which stops this actor and tells nobody.
\* before and last keep the store the call started from and the event.
Consume(kind, e, out) ==
    /\ before' = store
    /\ last' = [kind |-> kind, type |-> e.type, obj |-> e.obj]
    /\ store' = out.store
    /\ result' = out.result
    /\ issued' = out.issued
    /\ running' = [running EXCEPT ![kind] = (out.result \notin Raising)]
    /\ nEvents' = nEvents + 1
    /\ UNCHANGED <<cluster, notified, calls>>

\* an event the loop ignores: no Neo4jClient call
Skipped(st) == Outcome(st, "none", {})

\* a field access on None while the event is normalized: AttributeError
NormalizationError(st) == Outcome(st, "error", {})

\* _build_base_props needs metadata.creation_timestamp
Normalizable(o) == o.ts # NoTime

\* the ways the store can fail during a call that issues `steps`
Failures(steps) ==
    {[step |-> s, linked |-> {}, err |-> x] : s \in steps, x \in ErrorTypes}

\* a node loop that creates on MODIFIED as well
on_node_event_modified(st, e, fail) ==
    IF e.type \in {"ADDED", "MODIFIED"}
    THEN IF Normalizable(e.obj)
         THEN create_node(st, build_base_props(e.obj.name, "Node", e.obj.ts), fail)
         ELSE NormalizationError(st)
    ELSE Skipped(st)

\* KubeDataController.watch_node, the loop body for one event
on_node_event(st, e, fail) ==
    IF "ADDED" = e.type
    THEN IF Normalizable(e.obj)
         THEN create_node(st, build_base_props(e.obj.name, "Node", e.obj.ts), fail)
         ELSE NormalizationError(st)
    ELSE Skipped(st)

NodeFailures(e) == IF e.type = "ADDED" THEN Failures({"merge"}) ELSE {}

\* the props watch_namespace hands to upsert_namespace
NamespaceProps(o) == build_base_props(o.name, "Namespace", o.ts) @@ [status |-> o.phase]

\* KubeDataController.watch_namespace, the loop body for one event
on_namespace_event(st, e, fail) ==
    IF e.type \in {"ADDED", "MODIFIED"}
    THEN IF Normalizable(e.obj)
         THEN upsert_namespace(st, NamespaceProps(e.obj), fail)
         ELSE NormalizationError(st)
    ELSE Skipped(st)

NamespaceFailures(e) ==
    IF e.type \in {"ADDED", "MODIFIED"}
    THEN Failures({"merge"} \cup IF e.obj.phase # None THEN {"set"} ELSE {})
    ELSE {}

\* the props watch_pod hands to upsert_pod
PodProps(o) ==
    build_base_props(o.name, "Pod", o.ts) @@ [status |-> o.phase, pod_ip |-> o.pod_ip]

\* KubeDataController.watch_pod, the loop body for one event
on_pod_event(st, e, fail) ==
    IF e.type \in {"ADDED", "MODIFIED"}
    THEN IF Normalizable(e.obj)
         THEN upsert_pod(st, PodProps(e.obj), e.obj.labels, e.obj.namespace,
                         e.obj.node_name, fail)
         ELSE NormalizationError(st)
    ELSE IF "DELETED" = e.type THEN remove_pod(st, e.obj.name, fail)
    ELSE Skipped(st)

\* the ways the store can fail during the call on_pod_event makes
PodFailures(st, e) ==
    IF e.type = "DELETED" THEN Failures({"delete"})
    ELSE Failures(PodApplicable(PodProps(e.obj), e.obj.labels, e.obj.namespace,
                                e.obj.node_name))
         \cup (IF e.obj.labels # {}
               THEN {[step |-> "match", linked |-> L, err |-> x] :
                       L \in (SUBSET RowsToLink(st)) \ {RowsToLink(st), {}},
                       x \in ErrorTypes}
               ELSE {})

\* the props watch_deployment hands to upsert_deployment
DeploymentProps(o) ==
    build_base_props(o.name, "Deployment", o.ts)
        @@ [replicas |-> o.counts[1],
            ready_replicas |-> IF o.counts[2] \notin {0, NoCount} THEN o.counts[2] ELSE 0]

\* KubeDataController.watch_deployment, the loop body for one event
\* spec.selector.match_labels is read before the event type is looked at
on_deployment_event(st, e, fail) ==
    IF ~e.obj.spec_selector THEN NormalizationError(st)
    ELSE IF e.type \in {"ADDED", "MODIFIED"}
    THEN IF Normalizable(e.obj)
         THEN upsert_deployment(st, DeploymentProps(e.obj), e.obj.labels, e.obj.namespace,
                                e.obj.selector, fail)
         ELSE NormalizationError(st)
    ELSE IF "DELETED" = e.type THEN remove_deployment(st, e.obj.name, fail)
    ELSE Skipped(st)

DeploymentFailures(e) ==
    IF e.type = "DELETED" THEN Failures({"delete"})
    ELSE Failures(DeploymentApplicable(DeploymentProps(e.obj), e.obj.labels,
                                       e.obj.namespace, e.obj.selector))

\* the store answers every statement, or (in a cluster with faults) fails at one
MayFail(fails) == {NoFailure} \cup (IF Cluster.faults THEN fails ELSE {})

watch_node ==
    /\ running["node"] /\ nEvents < MaxEvents
    /\ \E e \in Events(Cluster.nodes) : \E fail \in MayFail(NodeFailures(e)) :
          Consume("node", e, on_node_event(store, e, fail))

watch_namespace ==
    /\ running["namespace"] /\ nEvents < MaxEvents
    /\ \E e \in Events(Cluster.namespaces) : \E fail \in MayFail(NamespaceFailures(e)) :
          Consume("namespace", e, on_namespace_event(store, e, fail))

watch_pod ==
    /\ running["pod"] /\ nEvents < MaxEvents
    /\ \E e \in Events(Cluster.pods) : \E fail \in MayFail(PodFailures(store, e)) :
          Consume("pod", e, on_pod_event(store, e, fail))

watch_deployment ==
    /\ running["deployment"] /\ nEvents < MaxEvents
    /\ \E e \in Events(Cluster.deployments) : \E fail \in MayFail(DeploymentFailures(e)) :
          Consume("deployment", e, on_deployment_event(store, e, fail))

\* the stream of a kind ends (the for loop is over and watch_* returns) or
\* raises (the exception leaves watch_* through on_receive): either way the
\* loop is over, and nothing is sent to anybody
stream_ends ==
    /\ Cluster.ends /\ nEvents < MaxEvents
    /\ \E kind \in Kinds, how \in {"ended", "stream error"} :
          /\ running[kind]
          /\ before' = store
          /\ last' = [kind |-> kind, type |-> "none", obj |-> [name |-> None]]
          /\ result' = how
          /\ issued' = {}
          /\ running' = [running EXCEPT ![kind] = FALSE]
          /\ nEvents' = nEvents + 1
          /\ UNCHANGED <<cluster, store, notified, calls>>

(***************************************************************************)
(* The four loops run as threads of one process, and every statement of a  *)
(* Neo4jClient method is a transaction of its own: here a loop takes an     *)
(* event, and then issues the statements of the call one at a time, the    *)
(* other loops' statements in between.  The store answers every statement. *)
(***************************************************************************)

InitConcurrent ==
    /\ cluster = "Concurrent"
    /\ store = EmptyStore
    /\ before = EmptyStore
    /\ last = NoEvent
    /\ result = "none"
    /\ issued = {}
    /\ running = [k \in Kinds |-> TRUE]
    /\ notified = {}
    /\ nEvents = 0
    /\ calls = [k \in Kinds |-> Idle]

\* the objects of a kind's stream
Stream(kind) ==
    CASE kind = "node" -> Cluster.nodes
      [] kind = "namespace" -> Cluster.namespaces
      [] kind = "pod" -> Cluster.pods
      [] kind = "deployment" -> Cluster.deployments

\* the loop body raises before it calls the client
Malformed(kind, e) ==
    CASE kind = "node" -> e.type = "ADDED" /\ ~Normalizable(e.obj)
      [] kind = "namespace" -> e.type \in {"ADDED", "MODIFIED"} /\ ~Normalizable(e.obj)
      [] kind = "pod" -> e.type \in {"ADDED", "MODIFIED"} /\ ~Normalizable(e.obj)
      [] kind = "deployment" ->
            \/ ~e.obj.spec_selector
            \/ e.type \in {"ADDED", "MODIFIED"} /\ ~Normalizable(e.obj)

\* the statements the loop of `kind` issues for event e, in order; "match" is
\* the read of the deployments, followed by a "link" per row with a selector
StepsOf(kind, e) ==
    LET o == e.obj
        upsert == e.type \in {"ADDED", "MODIFIED"}
        NsStep(x) == x = "merge" \/ o.phase # None
        PodStep(x) == x \in PodApplicable(PodProps(o), o.labels, o.namespace, o.node_name)
        DpStep(x) == x \in DeploymentApplicable(DeploymentProps(o), o.labels,
                                                o.namespace, o.selector)
    IN  CASE kind = "node" -> IF e.type = "ADDED" THEN <<"merge">> ELSE <<>>
          [] kind = "namespace" ->
                IF upsert THEN SelectSeq(<<"merge", "set">>, NsStep) ELSE <<>>
          [] kind = "pod" ->
                IF upsert THEN SelectSeq(PodSteps, PodStep)
                ELSE IF e.type = "DELETED" THEN <<"delete">> ELSE <<>>
          [] kind = "deployment" ->
                IF upsert THEN SelectSeq(DeploymentSteps, DpStep)
                ELSE IF e.type = "DELETED" THEN <<"delete">> ELSE <<>>

\* the store after statement `step` of the call for event e, other than the
\* matching of upsert_pod
Statement(st, kind, e, step) ==
    LET o == e.obj
    IN  CASE kind = "node" ->
                create_node(st, build_base_props(o.name, "Node", o.ts), NoFailure).store
          [] kind = "namespace" ->
                IF step = "merge"
                THEN MergeNode(st, "Namespace", o.name, "Namespace", Strftime(o.ts))
                ELSE SetNamespaceStatus(st, o.name, o.phase)
          [] kind = "pod" ->
                IF step = "delete" THEN remove_pod(st, o.name, NoFailure).store
                ELSE ApplyPodStep(st, step, PodProps(o), o.labels, o.namespace, o.node_name)
          [] kind = "deployment" ->
                IF step = "delete" THEN remove_deployment(st, o.name, NoFailure).store
                ELSE ApplyDeploymentStep(st, step, DeploymentProps(o), o.labels,
                                         o.namespace, o.selector)

\* a loop between two calls takes the next event of its stream
next_event ==
    /\ nEvents < MaxCalls
    /\ \E kind \in Kinds : \E e \in Events(Stream(kind)) :
          /\ running[kind] /\ calls[kind].todo = <<>>
          /\ before' = store
          /\ last' = [kind |-> kind, type |-> e.type, obj |-> e.obj]
          /\ result' = IF Malformed(kind, e) THEN "error" ELSE "none"
          /\ issued' = {}
          /\ running' = [running EXCEPT ![kind] = ~Malformed(kind, e)]
          /\ calls' = [calls EXCEPT ![kind] =
                          IF Malformed(kind, e) THEN Idle
                          ELSE [e |-> e, todo |-> StepsOf(kind, e), rows |-> {},
                                row |-> NoRow]]
          /\ nEvents' = nEvents + 1
          /\ UNCHANGED <<cluster, store, notified>>

\* the call in progress in the loop of `kind` issues its next statement, which
\* the store commits; after its last statement the call returns True
next_statement ==
    \E kind \in Kinds :
        LET c == calls[kind]
            step == Head(c.todo)
            read == RowsToLink(store)
        IN  /\ c.todo # <<>>
            /\ before' = store
            /\ last' = [kind |-> kind, type |-> c.e.type, obj |-> c.e.obj]
            /\ issued' = {step}
            /\ \/ /\ kind = "pod" /\ step = "match"
                  /\ store' = store
                  /\ calls' = [calls EXCEPT ![kind].rows = read, ![kind].row = NoRow,
                                  ![kind].todo = IF read = {} THEN Tail(c.todo)
                                                 ELSE <<"link">> \o Tail(c.todo)]
               \/ /\ kind = "pod" /\ step = "link"
                  /\ \E row \in c.rows :
                        /\ store' = LinkDeployment(store, row)
                        /\ calls' = [calls EXCEPT ![kind].rows = c.rows \ {row},
                                        ![kind].row = row,
                                        ![kind].todo = IF c.rows = {row} THEN Tail(c.todo)
                                                       ELSE c.todo]
               \/ /\ ~(kind = "pod" /\ step \in {"match", "link"})
                  /\ store' = Statement(store, kind, c.e, step)
                  /\ calls' = [calls EXCEPT ![kind].todo = Tail(c.todo)]
            /\ result' = IF calls'[kind].todo = <<>> THEN "True" ELSE "none"
            /\ UNCHANGED <<cluster, running, notified, nEvents>>

(***************************************************************************)
(* Properties.  last is the event just consumed, before the store its call *)
(* started from, store the store it left.                                  *)
(***************************************************************************)

NodesOf(st, label) == {n \in st.nodes : n.label = label}
Named(st, label, name) == {n \in st.nodes : n.label = label /\ n.name = name}
Rel(type, a, b) == [type |-> type, src |-> Key(a), dst |-> Key(b)]

\* the relationships with an end at a node of this label and name
Incident(st, label, name) ==
    {r \in st.rels : \/ (r.src.label = label /\ r.src.name = name)
                     \/ (r.dst.label = label /\ r.dst.name = name)}

\* the scheduledTo relationships into the pods of this name
ScheduledInto(st, name) ==
    {r \in st.rels : r.type = "scheduledTo" /\ r.dst.label = "Pod" /\ r.dst.name = name}

\* the stored deployments whose selector is a non-empty subset of labels
Selecting(st, labels) ==
    {d \in NodesOf(st, "Deployment") : d.selector # {} /\ d.selector \subseteq labels}

\* the loop handed the event to an upsert of the client
IsUpsert == last.type \in {"ADDED", "MODIFIED"} /\ result # "error"
PodUpsert == last.kind = "pod" /\ IsUpsert
DeploymentUpsert == last.kind = "deployment" /\ IsUpsert
\* an upsert_pod with pod_ip and status known, on a store that answers
PodUpsertWithIp ==
    PodUpsert /\ last.obj.pod_ip # None /\ last.obj.phase # None /\ ~Cluster.faults

\* C1 as stated: out-of-order resolution.  While a deployment D whose non-empty
\* selector is within the pod's labels is not in the store, upsert_pod(P) returns
\* success and creates no scheduledTo relationship into P at all.
C1_NoEdgeWhileDeploymentAbsent ==
    PodUpsertWithIp =>
        \A D \in Cluster.deployments :
            (/\ D.selector # {}
             /\ LabelProperty(D.selector) \subseteq LabelProperty(last.obj.labels)
             /\ ~\E d \in Named(before, "Deployment", D.name) : d.created = Strftime(D.ts))
            => /\ result = "True"
               /\ ScheduledInto(store, last.obj.name) \subseteq before.rels

\* C1 as amended: out-of-order resolution.  upsert_pod(P) with pod_ip, status
\* and labels L returns success; while no stored deployment has a non-empty
\* selector within L it creates no scheduledTo relationship into P; an
\* upsert_deployment(D) with a selector stores D with that selector; and an
\* upsert_pod(P) leaves a relationship D-scheduledTo->P for every stored D whose
\* non-empty selector is within L, so a deployment that arrived after the pod is
\* linked by the pod's next upsert.
C1_OutOfOrderResolution ==
    /\ PodUpsertWithIp =>
        /\ result = "True"
        /\ Selecting(before, LabelProperty(last.obj.labels)) = {}
              => ScheduledInto(store, last.obj.name) \subseteq before.rels
        /\ \A d \in Selecting(before, LabelProperty(last.obj.labels)),
              p \in Named(store, "Pod", last.obj.name) :
              Rel("scheduledTo", d, p) \in store.rels
    /\ (DeploymentUpsert /\ last.obj.selector # {} /\ ~Cluster.faults) =>
        /\ result = "True"
        /\ \E d \in Named(store, "Deployment", last.obj.name) :
              /\ d.created = Strftime(last.obj.ts)
              /\ d.selector = LabelProperty(last.obj.selector)

\* the pod was stored with its labels before the deployment selecting it was,
\* and this upsert of the same pod created the relationship
C1_Witness ==
    /\ PodUpsertWithIp /\ result = "True"
    /\ \E d \in Selecting(before, LabelProperty(last.obj.labels)),
          p \in Named(before, "Pod", last.obj.name) :
          /\ p.labels = LabelProperty(last.obj.labels)
          /\ p.pod_ip = last.obj.pod_ip
          /\ Rel("scheduledTo", d, p) \notin before.rels
          /\ Rel("scheduledTo", d, p) \in store.rels

\* C2 as stated: deployment matching is exact.  After a successful upsert_pod
\* of P (pod_ip, status known, labels L) on a store where P had no incoming
\* scheduledTo relationship, D-scheduledTo->P exists if and only if D is a
\* stored deployment whose stored selector is non-empty and within L.
C2_MatchingIsExact ==
    (PodUpsertWithIp /\ result = "True" /\ ScheduledInto(before, last.obj.name) = {}) =>
        \A p \in Named(store, "Pod", last.obj.name), d \in NodesOf(store, "Deployment") :
            Rel("scheduledTo", d, p) \in store.rels
                <=> d \in Selecting(store, LabelProperty(last.obj.labels))

\* C3: idempotence.  An ADDED event of any kind processed a second time,
\* right after it was processed, leaves the whole store as it was.
C3_Idempotence ==
    [][(/\ last.kind # "none" /\ last.type = "ADDED" /\ result = "True"
        /\ last' = last /\ result' = "True")
       => store' = store]_vars

\* an ADDED pod event with relationships, processed on a store that already
\* reflects it
C3_Witness ==
    /\ last.kind = "pod" /\ last.type = "ADDED" /\ result = "True"
    /\ last.obj.pod_ip # None /\ last.obj.labels # {}
    /\ before = store
    /\ \E r \in Incident(store, "Pod", last.obj.name) : r.type = "scheduledTo"
    /\ \E r \in Incident(store, "Pod", last.obj.name) : r.type = "runsOn"

\* the label of the graph nodes a stream's DELETED events remove
Removed == IF last.kind = "pod" THEN "Pod" ELSE "Deployment"
SuccessfulRemove ==
    last.kind \in {"pod", "deployment"} /\ last.type = "DELETED" /\ result = "True"

\* C4: deletion cleans edges.  After a successful remove_pod(n) or
\* remove_deployment(n) no node of that label is named n, no relationship
\* has an end at such a node, and every other node and relationship is as before.
C4_DeletionCleansEdges ==
    SuccessfulRemove =>
        /\ Named(store, Removed, last.obj.name) = {}
        /\ Incident(store, Removed, last.obj.name) = {}
        /\ store.nodes = before.nodes \ Named(before, Removed, last.obj.name)
        /\ store.rels = before.rels \ Incident(before, Removed, last.obj.name)

\* a pod with relationships in and out was removed, and others stayed
C4_Witness ==
    /\ SuccessfulRemove /\ last.kind = "pod"
    /\ \E r \in Incident(before, "Pod", last.obj.name) : r.src.label = "Pod"
    /\ \E r \in Incident(before, "Pod", last.obj.name) : r.dst.label = "Pod"
    /\ store.rels # {}

\* the graph node of the pod the last event carries
LastPod(st) == {p \in Named(st, "Pod", last.obj.name) : p.created = Strftime(last.obj.ts)}
\* the relationships touching graph node n
Touching(st, n) == {r \in st.rels : r.src = Key(n) \/ r.dst = Key(n)}

\* C5: partial-field upserts are safe.  upsert_pod of a pod not yet stored, with
\* no pod_ip, returns success, stores the pod and no relationship touching it.
\* upsert_pod with pod_ip and status set leaves the pod with runsOn to the
\* named Node, associateTo to the named Namespace and scheduledTo from every
\* deployment whose non-empty selector is within its labels.
C5_PartialUpsert ==
    /\ (PodUpsert /\ last.obj.pod_ip = None /\ ~Cluster.faults /\ LastPod(before) = {}) =>
        /\ result = "True"
        /\ LastPod(store) # {}
        /\ \A p \in LastPod(store) : Touching(store, p) = {}
    /\ PodUpsertWithIp =>
        \A p \in LastPod(store) :
            /\ \A n \in Named(store, "Node", last.obj.node_name) :
                  Rel("runsOn", p, n) \in store.rels
            /\ \A n \in Named(store, "Namespace", last.obj.namespace) :
                  Rel("associateTo", p, n) \in store.rels
            /\ \A d \in Selecting(store, LabelProperty(last.obj.labels)) :
                  Rel("scheduledTo", d, p) \in store.rels

\* the pod was stored without pod_ip and without relationships while its Node,
\* its Namespace and a matching Deployment were stored; this upsert linked it
C5_Witness ==
    /\ PodUpsertWithIp /\ result = "True"
    /\ \E p \in LastPod(before) : p.pod_ip = None /\ Touching(before, p) = {}
    /\ Named(before, "Node", last.obj.node_name) # {}
    /\ Named(before, "Namespace", last.obj.namespace) # {}
    /\ Selecting(before, LabelProperty(last.obj.labels)) # {}
    /\ \A p \in LastPod(store) :
          {r.type : r \in Touching(store, p)} = {"runsOn", "associateTo", "scheduledTo"}

\* C6 as stated: entity uniqueness.  The store never holds two graph nodes of
\* one label with the same name.
C6_OneEntityPerName ==
    \A a, b \in store.nodes : (a.label = b.label /\ a.name = b.name) => a = b

\* C7 as stated: pod labels are never stale.  After a successful upsert_pod the
\* stored labels of that pod are exactly the labels the event carried.
C7_LabelsNeverStale ==
    (PodUpsert /\ result = "True") =>
        \A p \in LastPod(store) : p.labels = LabelProperty(last.obj.labels)

\* the events the node and namespace loops skip
IgnoredEvent ==
    \/ last.kind = "node" /\ last.type \in {"MODIFIED", "DELETED"}
    \/ last.kind = "namespace" /\ last.type = "DELETED"

\* C8: a DELETED event for a namespace or a node, and a MODIFIED event for a
\* node, leaves the whole store unchanged.
C8_IgnoredEventsChangeNothing == IgnoredEvent => store = before

\* a DELETED event for a stored namespace that has relationships
C8_Witness ==
    /\ IgnoredEvent /\ last.kind = "namespace"
    /\ Incident(store, "Namespace", last.obj.name) # {}

\* C9 as stated: no Neo4jClient call lets an exception out; a store failure of
\* any type comes back as False.
C9_NeverRaises == result # "raised"

\* C10 as stated: the steps of upsert_pod are independent.  Whatever step the
\* store fails at, the call issues every step its arguments make applicable.
C10_EveryStepAttempted ==
    PodUpsert =>
        issued = PodApplicable(PodProps(last.obj), last.obj.labels,
                               last.obj.namespace, last.obj.node_name)

\* C11 as stated: a normalization error skips one event.  When an event lacks a
\* required field the loop of its kind goes on with the next event.
C11_NormalizationErrorSkipsOneEvent == result = "error" => running[last.kind]

\* C12 as stated: stream termination is surfaced.  Whenever the loop of a kind
\* has ended, the supervisor eventually holds a signal for that kind.
C12_TerminationSurfaced == \A k \in Kinds : (~running[k]) ~> (k \in notified)

\* C13: failure isolation.  There is one loop per resource kind, and no step
\* stops or cancels the loop of a kind other than the one whose event it
\* consumed: when one loop raises or ends, the others stay in their loops.
C13_FailureIsolation ==
    [][/\ DOMAIN running' = Kinds
       /\ \A k \in Kinds : (running[k] /\ k # last'.kind) => running'[k]]_vars

\* the loop of one kind is over and, after that, another kind's loop consumed
\* an event and changed the store
C13_Witness ==
    /\ \E k \in Kinds : ~running[k] /\ last.kind \notin {k, "none"}
    /\ last.type = "ADDED" /\ result = "True" /\ store # before
    /\ running[last.kind]

\* the relationships of a type, and those leaving graph node n
RelsOf(st, type) == {r \in st.rels : r.type = type}
Outgoing(st, n) == {r \in st.rels : r.src = Key(n)}
KeysOf(st) == {Key(n) : n \in st.nodes}
\* the pods stored under another name than the pod of the last event
OtherPods(st) == {p \in NodesOf(st, "Pod") : p.name # last.obj.name}

\* C14 as stated: deployment matching is pod-local.  An upsert_pod of P leaves
\* the scheduledTo relationships into every other pod as they were.
C14_MatchingIsPodLocal ==
    PodUpsert =>
        \A p \in OtherPods(store) : ScheduledInto(store, p.name) = ScheduledInto(before, p.name)

\* C15 as stated: pod_ip resolves to one pod.  An upsert_pod of P leaves the
\* properties and the outgoing relationships of every other pod as they were,
\* also when two stored pods carry the same pod_ip.
C15_PodIpResolvesToOnePod ==
    PodUpsert =>
        \A p \in OtherPods(before) :
            /\ p \in store.nodes
            /\ Outgoing(store, p) = Outgoing(before, p)

\* the graph node of the deployment the last event carries
LastDeployment(st) ==
    {d \in Named(st, "Deployment", last.obj.name) : d.created = Strftime(last.obj.ts)}

\* C16 as stated: replica counts track the latest event.  After a successful
\* upsert of a deployment its stored replicas and ready_replicas are the
\* event's spec.replicas and status.ready_replicas (0 when absent).
C16_ReplicaCountsTrackEvent ==
    (DeploymentUpsert /\ result = "True") =>
        \A d \in LastDeployment(store) :
            /\ d.replicas = last.obj.counts[1]
            /\ d.ready_replicas = (IF last.obj.counts[2] = NoCount THEN 0
                                   ELSE last.obj.counts[2])

C18_EdgesAdditiveOnly ==
    (last.kind # "none" /\ ~SuccessfulRemove) =>
        /\ before.rels \subseteq store.rels
        /\ KeysOf(before) \subseteq KeysOf(store)

\* the pod's new labels no longer satisfy the selector of a deployment it
\* was linked to, and the relationship is still there
C18_Witness ==
    /\ PodUpsert /\ result = "True"
    /\ \E d \in NodesOf(store, "Deployment"), p \in LastPod(store) :
          /\ p.labels = LabelProperty(last.obj.labels)
          /\ d.selector # {} /\ ~(d.selector \subseteq p.labels)
          /\ Rel("scheduledTo", d, p) \in before.rels
          /\ Rel("scheduledTo", d, p) \in store.rels

\* the edge-merge statement of the upsert_pod in progress has just run
Linked == last.kind = "pod" /\ issued = {"link"}

\* C19: no dangling edges under interleaving.  With the loops interleaved
\* statement by statement, both ends of every relationship are stored graph
\* nodes; no statement of the pod loop creates a Deployment; and the
\* edge-merge statement for a row whose deployment was removed since the read
\* changes nothing.
C19_NoDanglingEdges ==
    /\ \A r \in store.rels : r.src \in KeysOf(store) /\ r.dst \in KeysOf(store)
    /\ last.kind = "pod" => NodesOf(store, "Deployment") \subseteq before.nodes
    /\ (Linked /\ Named(before, "Deployment", calls["pod"].row.name) = {})
          => store = before

\* upsert_pod read deployment D, remove_deployment(D) committed, and then the
\* edge-merge statement for D ran while a pod satisfying D's selector is stored
C19_Witness ==
    /\ Linked
    /\ calls["pod"].row.selector # {}
    /\ Named(store, "Deployment", calls["pod"].row.name) = {}
    /\ \E p \in NodesOf(store, "Pod") : calls["pod"].row.selector \subseteq p.labels

\* C20 as stated: edges are justified at creation, under interleaving.  When a
\* statement adds D-scheduledTo->P, D's stored selector is non-empty and
\* within P's stored labels.
C20_EdgesJustifiedAtCreation ==
    \A r \in RelsOf(store, "scheduledTo") \ before.rels :
        \A d, p \in store.nodes :
            (Key(d) = r.src /\ Key(p) = r.dst)
                => d.selector # {} /\ d.selector \subseteq p.labels

Next == watch_node \/ watch_namespace \/ watch_pod \/ watch_deployment \/ stream_ends

Spec == Init /\ [][Next]_vars

InterleavedNext == next_event \/ next_statement

\* the loops interleaved statement by statement
Interleaved == InitConcurrent /\ [][InterleavedNext]_vars

\* the cluster whose streams end
InitDegraded == Init /\ cluster = "Degraded"

\* the scheduler runs every actor thread: a loop that can take a step does
FairSpec == InitDegraded /\ [][Next]_vars /\ WF_vars(Next)

====
